---- MODULE Spec2Model ----
(***************************************************************************)
(* Model of deploy_mastodon.py: the release pipeline run() and the stage   *)
(* functions it calls.  Text values (artifact names, versions, refs,       *)
(* paths) are tuples of one-character strings, so that the string          *)
(* operations of the script (endswith, lower, startswith, %-formatting,    *)
(* slicing) are computed on the characters.                                *)
(***************************************************************************)
EXTENDS Integers, Sequences, FiniteSets, TLC

VARIABLES
  args,         \* run()'s five parameters, read-only during the run
  env,          \* the clock and the file system the run starts in
  pom,          \* pom.xml: artifact name -> text of <name.version>, <<>> if absent
  pc,           \* position in run() and in the stage function it is in
  i,            \* index in ARTIFACTS of the loop variable `artifact`
  ok,           \* `ok` of the last run_command (None before any)
  out,          \* check_if_clean on its own: the status text it is given
  clean,        \* value of the last check_if_clean call (None, True, False, Raised)
  switched,     \* value of the last git_checkout_version call (None, True, False)
  installed,    \* what install() did last: None, "failed", "done"
  head,         \* per repository: the tag this run has left it detached at, else Unknown
  cmds,         \* every external command and descriptor read issued so far, in order
  branch_name,  \* install(): branch_name
  today,        \* install(): t
  target_dir,   \* install(): target_dir
  copy_dir,     \* subcopy_mastodon_jar(): copy_dir
  preexisting,  \* directories found to exist by os.path.exists
  mkdirs,       \* directories created by os.mkdir, in order
  copied        \* <<file, directory>> pairs copied by shutil.copy

vars == << args, env, pom, pc, i, ok, out, clean, switched, installed, head, cmds,
           branch_name, today, target_dir, copy_dir, preexisting, mkdirs, copied >>

----------------------------------------------------------------------------
\* Program constants

\* ARTIFACTS (the mastodon core artifacts), in the order of the source
ARTIFACTS ==
  << <<"m","a","s","t","o","d","o","n","-","c","o","l","l","e","c","t","i","o","n">>,
     <<"m","a","s","t","o","d","o","n","-","g","r","a","p","h">>,
     <<"m","a","s","t","o","d","o","n">>,
     <<"m","a","s","t","o","d","o","n","-","t","r","a","c","k","i","n","g">>,
     <<"m","a","s","t","o","d","o","n","-","e","l","l","i","p","s","o","i","d","-","f","i","t","t","i","n","g">>,
     <<"m","a","s","t","o","d","o","n","-","s","e","l","e","c","t","i","o","n","-","c","r","e","a","t","o","r">>,
     <<"m","a","s","t","o","d","o","n","-","p","a","s","t","e","u","r">>,
     <<"m","a","s","t","o","d","o","n","-","t","o","m","a","n","c","a","k">>,
     <<"m","a","s","t","o","d","o","n","-","a","p","p">> >>

\* EXTRAS (things needed by Mastodon not in Fiji core)
EXTRAS ==
  << <<"m","o","b","i","e","-","i","o">>,
     <<"h","u","m","b","l","e","-","v","i","d","e","o","-","a","l","l">>,
     <<"h","u","m","b","l","e","-","v","i","d","e","o","-","n","o","a","r","c","h">> >>

ArtifactSet == { ARTIFACTS[k] : k \in 1..Len(ARTIFACTS) }

\* the literals 'mastodon' (get_branch_name's argument, startswith's prefix)
\* and 'mastodon-app' (where the install command runs)
MASTODON == <<"m","a","s","t","o","d","o","n">>
MASTODON_APP == <<"m","a","s","t","o","d","o","n","-","a","p","p">>
SNAPSHOT == <<"S","N","A","P","S","H","O","T">>
\* the command texts of the script
GIT_STATUS == "git status -uno"
GIT_PULL_TAGS == "git pull --tags"
GIT_CHECKOUT_TAG == "git -c advice.detachedHead=false checkout"
GIT_CHECKOUT_MASTER == "git checkout master"
MVN_INSTALL == "mvn clean install"
MVN_INSTALL_TO == "mvn clean install -Dscijava.app.directory="
READ_POM == "read pom.xml"
MASTER == <<"m","a","s","t","e","r">>

\* target_dir[0:-4]: the number of characters the slice drops
SuffixLen == 4

\* Python values: True, False, None, and Raised for a call that ends in an
\* unhandled exception instead of returning
True == "True"
False == "False"
None == "None"
Raised == "Raised"
Bool == { True, False }
\* text-valued markers: no text yet, no match of a pattern, no tag checked out,
\* no symbolic link
NoText == <<"None">>
NoMatch == <<"NoMatch">>
Unknown == <<"Unknown">>
NoLink == <<"NoLink">>

----------------------------------------------------------------------------
\* String operations of the script, on tuples of characters

UpperCase == <<"A","B","C","D","E","F","G","H","I","J","K","L","M","N","O","P","Q","R","S","T","U","V","W","X","Y","Z">>
LowerCase == <<"a","b","c","d","e","f","g","h","i","j","k","l","m","n","o","p","q","r","s","t","u","v","w","x","y","z">>

\* str.lower()
lower(s) ==
  [ k \in 1..Len(s) |->
      IF \E u \in 1..Len(UpperCase) : UpperCase[u] = s[k]
      THEN LowerCase[CHOOSE u \in 1..Len(UpperCase) : UpperCase[u] = s[k]]
      ELSE s[k] ]

\* str.startswith(p), str.endswith(p)
startswith(s, p) == Len(s) >= Len(p) /\ SubSeq(s, 1, Len(p)) = p
endswith(s, p) == Len(s) >= Len(p) /\ SubSeq(s, Len(s) - Len(p) + 1, Len(s)) = p

\* s[0:-n]
DropLast(s, n) == IF Len(s) <= n THEN <<>> ELSE SubSeq(s, 1, Len(s) - n)

Digit(d) == <<"0","1","2","3","4","5","6","7","8","9">>[d + 1]

\* '%0<w>d' % n
RECURSIVE ZeroPad(_, _)
ZeroPad(n, w) == IF w = 0 THEN <<>> ELSE Append(ZeroPad(n \div 10, w - 1), Digit(n % 10))

\* str(datetime.date): YYYY-MM-DD
DateStr(t) == ZeroPad(t[1], 4) \o <<"-">> \o ZeroPad(t[2], 2) \o <<"-">> \o ZeroPad(t[3], 2)

\* the last component of a path
RECURSIVE basename(_)
basename(p) ==
  IF p = <<>> THEN <<>>
  ELSE IF p[Len(p)] = "/" THEN <<>>
  ELSE Append(basename(SubSeq(p, 1, Len(p) - 1)), p[Len(p)])

----------------------------------------------------------------------------
\* Bounds of the model and the bounded sets the inputs are drawn from

\* at most this many entries of the descriptor differ from the development
\* snapshot version (the other artifacts follow their development branch)
MaxPinned == 2

RELEASE == <<"0",".","9",".","0">>
DEVELOPMENT == <<"1",".","2",".","3","-","S","N","A","P","S","H","O","T">>
\* version texts of a whole run / of the version switcher on its own:
\* a release, a snapshot, an absent entry (''), 'SNAPSHOT' alone, and a
\* lower-case 'snapshot' that endswith does not recognise
RunVersions == { RELEASE, DEVELOPMENT }
SwitchVersions ==
  { RELEASE, DEVELOPMENT, <<>>, SNAPSHOT, <<"1",".","0","-","s","n","a","p","s","h","o","t">> }

PomsOver(versions) ==
  UNION { { [ a \in ArtifactSet |-> IF a \in S THEN f[a] ELSE DEVELOPMENT ] :
              f \in [S -> versions \ {DEVELOPMENT}] } :
          S \in { T \in SUBSET ArtifactSet : Cardinality(T) <= MaxPinned } }

\* branch and tag names a status text may show
RefNames ==
  { <<"m","a","s","t","o","d","o","n","-","d","e","v">>,
    <<"M","a","s","t","o","d","o","n">>,
    MASTER }

\* the marker lines of a `git status -uno` text that the script searches for:
\*   branch            the name in '^On branch (.+)$', NoMatch without such a line
\*   detached          the name in '^HEAD detached at (.+)$', NoMatch without one
\*   up_to_date_with   'Your branch is up to date with' occurs
\*   nothing_to_commit 'nothing to commit' occurs
\*   unstaged          'Changes not staged for commit:' occurs
StatusTexts ==
  [ branch : RefNames \cup {NoMatch}, detached : RefNames \cup {NoMatch},
    up_to_date_with : BOOLEAN, nothing_to_commit : BOOLEAN, unstaged : BOOLEAN ]

\* output of a failed status query ('fatal: not a git repository ...'):
\* none of the markers
FatalText ==
  [ branch |-> NoMatch, detached |-> NoMatch, up_to_date_with |-> FALSE,
    nothing_to_commit |-> FALSE, unstaged |-> FALSE ]

Dates == { <<2024, 1, 15>>, <<2023, 12, 5>> }

\* the working directory, and what a symbolic link at the destination points to
Cwd == <<"/","w","o","r","k">>
LinkTargets == { <<"/","d","a","t","a","/","o","u","t">> }

\* files the jars folder of the destination may hold
JarFiles ==
  { <<"m","a","s","t","o","d","o","n","-","1",".","j","a","r">>,
    <<"m","o","b","i","e","-","i","o","-","2",".","j","a","r">>,
    <<"i","m","g","l","i","b","2","-","5",".","j","a","r">> }

\* the clock and the file system a run starts in
Envs ==
  [ today : Dates, link : LinkTargets \cup {NoLink},
    target_exists : BOOLEAN, copy_exists : BOOLEAN, jars : SUBSET JarFiles ]
\* a whole run is explored in a fresh working directory
RunEnvs ==
  { e \in Envs : /\ e.today = <<2024, 1, 15>> /\ e.link = NoLink
                 /\ ~e.target_exists /\ ~e.copy_exists /\ e.jars = JarFiles }

Args ==
  [ install_to_default : BOOLEAN, is_preview : BOOLEAN, do_install : BOOLEAN,
    skip_up_to_date : BOOLEAN, skip_unstaged : BOOLEAN ]

----------------------------------------------------------------------------
\* The stage functions

\* get_artifact_version: the first <name.version> text of the descriptor, '' if none
get_artifact_version(artifact_name) == pom[artifact_name]

\* check_if_clean, from the result of its status query to its value;
\* Raised when tag_match is None at tag_match.group( 1 )
check_if_clean(status_ok, text, skip_up_to_date, skip_unstaged) ==
  IF status_ok = False THEN False
  ELSE IF text.branch = NoMatch /\ text.detached = NoMatch THEN Raised
  ELSE LET up_to_date == IF text.branch # NoMatch THEN text.up_to_date_with
                         ELSE text.nothing_to_commit
       IN  IF ~skip_up_to_date /\ ~up_to_date THEN False
           ELSE IF ~skip_unstaged /\ text.unstaged THEN False
           ELSE True

\* get_branch_name, from the output of its status query (whose `ok` it ignores);
\* NoMatch when tag_match is None at tag_match.group( 1 ), which raises
get_branch_name(text) ==
  IF text.branch # NoMatch THEN text.branch
  ELSE IF text.detached # NoMatch THEN text.detached
  ELSE NoMatch

\* (variant) a snapshot test that does not distinguish upper and lower case
is_snapshot_any_case(version) == endswith(lower(version), lower(SNAPSHOT))

\* version.endswith('SNAPSHOT')
is_snapshot(version) == endswith(version, SNAPSHOT)

\* "%s-%s" % ( artifact, version ): the ref git_checkout_version checks out
tag_ref(artifact, version) == artifact \o <<"-">> \o version

\* install(): target_dir before os.path.realpath
target_name(branch, t) ==
  IF startswith(lower(branch), MASTODON)
  THEN <<".","/">> \o branch \o <<"-">> \o DateStr(t) \o <<"-","a","l","l">>
  ELSE <<".","/","M","a","s","t","o","d","o","n","-">> \o branch \o <<"-">> \o DateStr(t)
         \o <<"-","a","l","l">>

\* os.path.abspath
abspath(path) ==
  IF path # <<>> /\ path[1] = "/" THEN path
  ELSE Cwd \o <<"/">> \o (IF startswith(path, <<".","/">>)
                          THEN SubSeq(path, 3, Len(path)) ELSE path)

\* os.path.realpath: absolute, and through the symbolic link if the path is one
realpath(path, link) == IF link = NoLink THEN abspath(path) ELSE link

\* subcopy_mastodon_jar: copy_dir = target_dir[0:-4]
copy_dir_of(target) == DropLast(target, SuffixLen)

\* glob '<prefix>-*.jar' on a file name
glob_match(prefix, file) ==
  /\ Len(file) >= Len(prefix) + 5
  /\ startswith(file, prefix \o <<"-">>)
  /\ endswith(file, <<".","j","a","r">>)

\* the files subcopy_mastodon_jar copies out of the jars folder
jars_to_copy(files) ==
  { f \in files : glob_match(MASTODON, f) }
    \cup { f \in files : \E k \in 1..Len(EXTRAS) : glob_match(EXTRAS[k], f) }

\* what a successful `git status -uno` may print in a repository
StatusOutputs(artifact) ==
  IF head[artifact] = Unknown THEN StatusTexts
  ELSE { t \in [ branch : {NoMatch}, detached : {head[artifact]},
                 up_to_date_with : BOOLEAN, nothing_to_commit : BOOLEAN,
                 unstaged : BOOLEAN ] : TRUE }

----------------------------------------------------------------------------
\* run(): the state at its entry

NoLocals ==
  /\ ok = None /\ out = FatalText /\ clean = None /\ switched = None /\ installed = None
  /\ branch_name = NoText /\ today = NoText /\ target_dir = NoText /\ copy_dir = NoText

NoEffects ==
  /\ head = [ a \in ArtifactSet |-> Unknown ]
  /\ cmds = <<>> /\ preexisting = {} /\ mkdirs = <<>> /\ copied = {}

Init ==
  /\ args \in Args
  /\ env \in RunEnvs
  /\ pom \in PomsOver(RunVersions)
  /\ pc = "run"
  /\ i = 1
  /\ NoLocals
  /\ NoEffects

\* the loop variable
artifact == ARTIFACTS[i]

\* one entry of cmds: the function issuing it, the command, the repository it
\* runs in and the argument formatted into it
Cmd(by, cmd, where, arg) == [ by |-> by, cmd |-> cmd, where |-> where, arg |-> arg ]

\* `for artifact in ARTIFACTS`: on to the next iteration of the loop at
\* position `loop`, or to the statement `after` it
Iterate(loop, after) ==
  IF i < Len(ARTIFACTS) THEN pc' = loop /\ i' = i + 1
  ELSE pc' = after /\ i' = 1

\* run(), line 190: a preview run goes straight to the install stage
run_enter ==
  /\ pc = "run"
  /\ pc' = IF args.is_preview THEN "install" ELSE "read"
  /\ UNCHANGED << args, env, pom, i, ok, out, clean, switched, installed, head, cmds,
                  branch_name, today, target_dir, copy_dir, preexisting, mkdirs, copied >>

\* run(), lines 194-196: print the version specified for one artifact
run_read_version ==
  /\ pc = "read"
  /\ cmds' = Append(cmds, Cmd("run", READ_POM, <<>>, artifact))
  /\ Iterate("read", "check")
  /\ UNCHANGED << args, env, pom, ok, out, clean, switched, installed, head,
                  branch_name, today, target_dir, copy_dir, preexisting, mkdirs, copied >>

\* (variant) a run() that goes on to the next repository after a failed check
run_after_check_ignoring(value) ==
  IF value = Raised THEN pc' = "crashed" /\ i' = i
  ELSE Iterate("check", "switch")

\* run(), lines 201-203 with check_if_clean: what run() does with its value
run_after_check(value) ==
  IF value = Raised THEN pc' = "crashed" /\ i' = i
  ELSE IF value = False THEN pc' = "returned" /\ i' = i
  ELSE Iterate("check", "switch")

\* the <<ok, value>> pairs check_if_clean can end with in a repository
check_outcomes(a, skip_up_to_date, skip_unstaged) ==
  { << status_ok,
       check_if_clean(status_ok, IF status_ok = True THEN text ELSE FatalText,
                      skip_up_to_date, skip_unstaged) >> :
      status_ok \in Bool, text \in StatusOutputs(a) }

run_check ==
  /\ pc = "check"
  /\ \E o \in check_outcomes(artifact, args.skip_up_to_date, args.skip_unstaged) :
       /\ ok' = o[1]
       /\ clean' = o[2]
       /\ run_after_check(o[2])
  /\ cmds' = Append(cmds, Cmd("check_if_clean", GIT_STATUS, artifact, <<>>))
  /\ UNCHANGED << args, env, pom, out, switched, installed, head,
                  branch_name, today, target_dir, copy_dir, preexisting, mkdirs, copied >>

\* (variant) a run() that goes on to the next artifact after a failed switch
run_after_switch_ignoring(value) == Iterate("switch", "install")

\* run(), lines 208-212: what run() does with git_checkout_version's value
run_after_switch(value) ==
  IF value = False THEN pc' = "returned" /\ i' = i
  ELSE Iterate("switch", "install")

\* run() line 210 and git_checkout_version, lines 105-107: a SNAPSHOT version
git_checkout_version_snapshot ==
  /\ pc = "switch"
  /\ is_snapshot(get_artifact_version(artifact))
  /\ cmds' = Append(cmds, Cmd("run", READ_POM, <<>>, artifact))
  /\ switched' = True
  /\ run_after_switch(True)
  /\ UNCHANGED << args, env, pom, ok, out, clean, installed, head,
                  branch_name, today, target_dir, copy_dir, preexisting, mkdirs, copied >>

\* run() line 210 and git_checkout_version, lines 109-113: get the tags from
\* the remote; `ok` is assigned and not looked at
git_checkout_version_pull ==
  /\ pc = "switch"
  /\ ~is_snapshot(get_artifact_version(artifact))
  /\ cmds' = cmds \o << Cmd("run", READ_POM, <<>>, artifact),
                        Cmd("git_checkout_version", GIT_PULL_TAGS, artifact, <<>>) >>
  /\ ok' \in Bool
  /\ pc' = "pull_done"
  /\ UNCHANGED << args, env, pom, i, out, clean, switched, installed, head,
                  branch_name, today, target_dir, copy_dir, preexisting, mkdirs, copied >>

\* (variant) a git_checkout_version that does not look at the checkout's `ok`
after_checkout_unchecked(done) ==
  IF args.do_install THEN switched' = switched /\ pc' = "build" /\ i' = i
  ELSE switched' = True /\ run_after_switch(True)

\* git_checkout_version, lines 117-126: after the checkout command
after_checkout(done) ==
  IF done = False THEN switched' = False /\ run_after_switch(False)
  ELSE IF args.do_install THEN switched' = switched /\ pc' = "build" /\ i' = i
  ELSE switched' = True /\ run_after_switch(True)

\* git_checkout_version, lines 115-116: check the tag out
git_checkout_version_checkout ==
  /\ pc = "pull_done"
  /\ LET ref == tag_ref(artifact, get_artifact_version(artifact))
     IN  /\ cmds' = Append(cmds, Cmd("git_checkout_version", GIT_CHECKOUT_TAG, artifact, ref))
         /\ \E done \in Bool :
              /\ ok' = done
              /\ head' = IF done = True THEN [head EXCEPT ![artifact] = ref] ELSE head
              /\ after_checkout(done)
  /\ UNCHANGED << args, env, pom, out, clean, installed,
                  branch_name, today, target_dir, copy_dir, preexisting, mkdirs, copied >>

\* git_checkout_version, lines 120-126: build the artifact
git_checkout_version_build ==
  /\ pc = "build"
  /\ cmds' = Append(cmds, Cmd("git_checkout_version", MVN_INSTALL, artifact, <<>>))
  /\ \E done \in Bool :
       /\ ok' = done
       /\ switched' = done
       /\ run_after_switch(done)
  /\ UNCHANGED << args, env, pom, out, clean, installed, head,
                  branch_name, today, target_dir, copy_dir, preexisting, mkdirs, copied >>

\* install(), lines 153-161 in default-location mode
install_default ==
  /\ pc = "install"
  /\ args.install_to_default
  /\ cmds' = Append(cmds, Cmd("install", MVN_INSTALL, MASTODON_APP, <<>>))
  /\ \E done \in Bool :
       /\ ok' = done
       /\ installed' = IF done = True THEN "done" ELSE "failed"
  /\ pc' = "install_done"
  /\ UNCHANGED << args, env, pom, i, out, clean, switched, head,
                  branch_name, today, target_dir, copy_dir, preexisting, mkdirs, copied >>

\* the <<ok, name>> pairs get_branch_name can end with in a repository
branch_outcomes(a) ==
  { << status_ok, get_branch_name(IF status_ok = True THEN text ELSE FatalText) >> :
      status_ok \in Bool, text \in StatusOutputs(a) }

\* install(), line 141 with get_branch_name, lines 128-137
install_get_branch_name ==
  /\ pc = "install"
  /\ ~args.install_to_default
  /\ cmds' = Append(cmds, Cmd("get_branch_name", GIT_STATUS, MASTODON, <<>>))
  /\ \E o \in branch_outcomes(MASTODON) :
       LET name == o[2]
       IN  /\ ok' = o[1]
           /\ IF name = NoMatch THEN pc' = "crashed" /\ branch_name' = branch_name
              ELSE pc' = "target" /\ branch_name' = name
  /\ UNCHANGED << args, env, pom, i, out, clean, switched, installed, head,
                  today, target_dir, copy_dir, preexisting, mkdirs, copied >>

\* install(), lines 142-152: name the destination and create it if absent;
\* os.mkdir raises when it cannot create the directory
install_target_dir ==
  /\ pc = "target"
  /\ today' = env.today
  /\ LET dir == realpath(target_name(branch_name, env.today), env.link)
     IN  /\ target_dir' = dir
         /\ IF env.target_exists
            THEN preexisting' = preexisting \cup {dir} /\ mkdirs' = mkdirs /\ pc' = "mvn"
            ELSE /\ preexisting' = preexisting
                 /\ \E made \in BOOLEAN :
                      IF made THEN mkdirs' = Append(mkdirs, dir) /\ pc' = "mvn"
                      ELSE mkdirs' = mkdirs /\ pc' = "crashed"
  /\ UNCHANGED << args, env, pom, i, ok, out, clean, switched, installed, head, cmds,
                  branch_name, copy_dir, copied >>

\* (variant) an install() that copies whatever the install command returned
install_after_mvn_unchecked(done) ==
  /\ pc' = "subcopy"
  /\ installed' = IF done = True THEN installed ELSE "failed"

\* install(), lines 159-164: what install() does after its install command
install_after_mvn(done) ==
  IF done = True THEN pc' = "subcopy" /\ installed' = installed
  ELSE pc' = "install_done" /\ installed' = "failed"

\* install(), lines 152-164 in local-directory mode: the install command
install_mvn ==
  /\ pc = "mvn"
  /\ cmds' = Append(cmds, Cmd("install", MVN_INSTALL_TO, MASTODON_APP, abspath(target_dir)))
  /\ \E done \in Bool :
       /\ ok' = done
       /\ install_after_mvn(done)
  /\ UNCHANGED << args, env, pom, i, out, clean, switched, head,
                  branch_name, today, target_dir, copy_dir, preexisting, mkdirs, copied >>

\* subcopy_mastodon_jar, lines 166-182
subcopy_mastodon_jar ==
  /\ pc = "subcopy"
  /\ LET dir == copy_dir_of(target_dir)
     IN  /\ copy_dir' = dir
         /\ IF env.copy_exists
            THEN /\ preexisting' = preexisting \cup {dir}
                 /\ mkdirs' = mkdirs
                 /\ copied' = { <<f, dir>> : f \in jars_to_copy(env.jars) }
                 /\ pc' = "install_done" /\ installed' = "done"
            ELSE /\ preexisting' = preexisting
                 /\ \E made \in BOOLEAN :
                      IF made
                      THEN /\ mkdirs' = Append(mkdirs, dir)
                           /\ copied' = { <<f, dir>> : f \in jars_to_copy(env.jars) }
                           /\ pc' = "install_done" /\ installed' = "done"
                      ELSE /\ mkdirs' = mkdirs /\ copied' = copied
                           /\ pc' = "crashed" /\ installed' = installed
  /\ UNCHANGED << args, env, pom, i, ok, out, clean, switched, head, cmds,
                  branch_name, today, target_dir >>

\* run(), lines 217-220: install()'s value is not looked at
run_after_install ==
  /\ pc = "install_done"
  /\ pc' = IF args.is_preview THEN "finished" ELSE "restore"
  /\ i' = 1
  /\ UNCHANGED << args, env, pom, ok, out, clean, switched, installed, head, cmds,
                  branch_name, today, target_dir, copy_dir, preexisting, mkdirs, copied >>

\* run(), lines 225-228 with git_checkout_master, lines 95-102
git_checkout_master ==
  /\ pc = "restore"
  /\ cmds' = Append(cmds, Cmd("git_checkout_master", GIT_CHECKOUT_MASTER, artifact, <<>>))
  /\ \E done \in Bool :
       /\ ok' = done
       /\ head' = IF done = True THEN [head EXCEPT ![artifact] = Unknown] ELSE head
  /\ Iterate("restore", "finished")
  /\ UNCHANGED << args, env, pom, out, clean, switched, installed,
                  branch_name, today, target_dir, copy_dir, preexisting, mkdirs, copied >>

Next ==
  \/ run_enter
  \/ run_read_version
  \/ run_check
  \/ git_checkout_version_snapshot
  \/ git_checkout_version_pull
  \/ git_checkout_version_checkout
  \/ git_checkout_version_build
  \/ install_default
  \/ install_get_branch_name
  \/ install_target_dir
  \/ install_mvn
  \/ subcopy_mastodon_jar
  \/ run_after_install
  \/ git_checkout_master

Spec == Init /\ [][Next]_vars

----------------------------------------------------------------------------
\* check_if_clean on its own, over every status text and both overrides

InitClean ==
  /\ args \in { a \in Args : ~a.install_to_default /\ ~a.is_preview /\ ~a.do_install }
  /\ env \in RunEnvs
  /\ pom = [ a \in ArtifactSet |-> DEVELOPMENT ]
  /\ pc = "check_if_clean"
  /\ i = 1
  /\ ok \in Bool
  /\ out \in IF ok = True THEN StatusTexts ELSE {FatalText}
  /\ clean = None /\ switched = None /\ installed = None
  /\ branch_name = NoText /\ today = NoText /\ target_dir = NoText /\ copy_dir = NoText
  /\ NoEffects

check_if_clean_call ==
  /\ pc = "check_if_clean"
  /\ clean' = check_if_clean(ok, out, args.skip_up_to_date, args.skip_unstaged)
  /\ pc' = "check_if_clean_done"
  /\ UNCHANGED << args, env, pom, i, ok, out, switched, installed, head, cmds,
                  branch_name, today, target_dir, copy_dir, preexisting, mkdirs, copied >>

NextClean == check_if_clean_call

SpecClean == InitClean /\ [][NextClean]_vars

\* the version-switch stage on its own, over descriptors with any version text

InitSwitch ==
  /\ args \in { a \in Args : /\ ~a.install_to_default /\ ~a.is_preview
                             /\ ~a.skip_up_to_date /\ ~a.skip_unstaged }
  /\ env \in RunEnvs
  /\ pom \in PomsOver(SwitchVersions)
  /\ pc = "switch"
  /\ i = 1
  /\ NoLocals
  /\ NoEffects

NextSwitch ==
  \/ git_checkout_version_snapshot
  \/ git_checkout_version_pull
  \/ git_checkout_version_checkout
  \/ git_checkout_version_build

SpecSwitch == InitSwitch /\ [][NextSwitch]_vars

\* install() on its own, over every clock and file system, with the primary
\* repository on a branch or left at its pinned tag

InitInstall ==
  /\ args \in { a \in Args : /\ ~a.is_preview /\ ~a.do_install
                             /\ ~a.skip_up_to_date /\ ~a.skip_unstaged }
  /\ env \in Envs
  /\ pom = [ a \in ArtifactSet |-> IF a = MASTODON THEN RELEASE ELSE DEVELOPMENT ]
  /\ pc = "install"
  /\ i = 1
  /\ NoLocals
  /\ \E ref \in { Unknown, tag_ref(MASTODON, RELEASE) } :
       head = [ a \in ArtifactSet |-> IF a = MASTODON THEN ref ELSE Unknown ]
  /\ cmds = <<>> /\ preexisting = {} /\ mkdirs = <<>> /\ copied = {}

NextInstall ==
  \/ install_default
  \/ install_get_branch_name
  \/ install_target_dir
  \/ install_mvn
  \/ subcopy_mastodon_jar

SpecInstall == InitInstall /\ [][NextInstall]_vars

----------------------------------------------------------------------------
\* What the properties say about the commands issued

Ended == { "returned", "finished", "crashed" }

Issued(cmd) == { k \in 1..Len(cmds) : cmds[k].cmd = cmd }
IssuedBy(by) == { k \in 1..Len(cmds) : cmds[k].by = by }
TagCheckouts == Issued(GIT_CHECKOUT_TAG)
MasterCheckouts == Issued(GIT_CHECKOUT_MASTER)
\* 'mvn clean install', with or without a destination, by whichever function
MvnInstalls == Issued(MVN_INSTALL) \cup Issued(MVN_INSTALL_TO)
\* the install command of the install stage
StageInstalls == IssuedBy("install")
VersionReads == Issued(READ_POM)
CleanChecks == IssuedBy("check_if_clean")
LastCmd == cmds[Len(cmds)]

\* v ends with 'SNAPSHOT', said without the script's string operations
EndsWithSnapshot(v) ==
  \E n \in 0..Len(v) : v = [ k \in 1..n |-> v[k] ] \o <<"S","N","A","P","S","H","O","T">>

----------------------------------------------------------------------------
\* C1: in a non-preview run, once check_if_clean has returned False for an
\* artifact, no tag checkout, no `git checkout master` and no `mvn clean
\* install` has been or is issued; and every cleanliness check that is performed
\* precedes every checkout.
C1_CleanGate ==
  /\ (~args.is_preview /\ clean = False) =>
        /\ pc = "returned"
        /\ TagCheckouts = {} /\ MasterCheckouts = {} /\ MvnInstalls = {}
  /\ \A k \in CleanChecks, c \in TagCheckouts \cup MasterCheckouts : k < c

\* the third repository fails the check after two passed
C1_Witness ==
  /\ ~args.is_preview /\ clean = False /\ i = 3
  /\ Cardinality(CleanChecks) = 3

\* C2 (as claimed): a preview run with install_to_default and do_install false
\* ends having read no version, checked no repository, checked out no tag and
\* no master, and having issued the install command exactly once.
C2_PreviewInstallsOnce ==
  (args.is_preview /\ ~args.install_to_default /\ ~args.do_install /\ pc \in Ended) =>
     /\ VersionReads = {} /\ CleanChecks = {}
     /\ TagCheckouts = {} /\ MasterCheckouts = {}
     /\ Cardinality(MvnInstalls) = 1

\* C3 (as claimed): a full run that reached the install stage ends having
\* attempted `git checkout master` in every core artifact.
C3_RestoreAttemptsAll ==
  (~args.is_preview /\ pc \in Ended
     /\ (StageInstalls # {} \/ IssuedBy("get_branch_name") # {})) =>
     \A a \in ArtifactSet : \E k \in MasterCheckouts : cmds[k].where = a

\* C4 (as claimed): after any failed command of git_checkout_version (tag
\* fetch, tag checkout or build) the next step issues no command: the call
\* returns False and run() returns.
C4_AnyFailureAborts ==
  [][ (cmds # <<>> /\ LastCmd.by = "git_checkout_version" /\ ok = False) =>
        (cmds' = cmds /\ switched' = False /\ pc' = "returned") ]_vars

\* C4 (amended): a failed tag checkout or build makes git_checkout_version
\* return False and run() return at once, with no install issued and no step
\* after it; a failed tag fetch is not looked at: the next step is the checkout
\* of the tag.
C4_CheckoutOrBuildFailureAborts ==
  /\ [] ( ( /\ cmds # <<>>
            /\ LastCmd.by = "git_checkout_version"
            /\ LastCmd.cmd \in { GIT_CHECKOUT_TAG, MVN_INSTALL }
            /\ ok = False ) =>
          ( switched = False /\ pc = "returned" /\ StageInstalls = {} ) )
  /\ [][ pc # "returned" ]_vars
  /\ [][ pc = "pull_done" =>
           /\ Len(cmds') = Len(cmds) + 1
           /\ cmds'[Len(cmds')].cmd = GIT_CHECKOUT_TAG
           /\ cmds'[Len(cmds')].where = artifact ]_vars

\* a build fails after the tag was checked out
C4_Witness ==
  /\ cmds # <<>>
  /\ LastCmd.by = "git_checkout_version" /\ LastCmd.cmd = MVN_INSTALL
  /\ ok = False /\ switched = False /\ pc = "returned"

\* the up-to-date boolean derived from a status text: the branch indicator on
\* a named branch, the 'nothing to commit' indicator on a detached head
UpToDate(text) ==
  IF text.branch # NoMatch THEN text.up_to_date_with ELSE text.nothing_to_commit

\* C5 (as claimed): when the status query succeeds, check_if_clean returns
\* False exactly when (skip_up_to_date is false and the repository is not up to
\* date) or (skip_unstaged is false and unstaged changes exist), and True
\* otherwise.
C5_CleanDecision ==
  (pc = "check_if_clean_done" /\ ok = True) =>
     clean = IF \/ (~args.skip_up_to_date /\ ~UpToDate(out))
                \/ (~args.skip_unstaged /\ out.unstaged)
             THEN False ELSE True

\* C6 (as claimed): check_if_clean ends by returning a boolean for every status
\* text, and with skip_up_to_date false it returns False whenever the text has
\* neither the 'Your branch is up to date with' nor the 'nothing to commit'
\* indicator.
C6_NoIndicatorFails ==
  pc = "check_if_clean_done" =>
     /\ clean \in Bool
     /\ (~args.skip_up_to_date /\ ~out.up_to_date_with /\ ~out.nothing_to_commit) =>
           clean = False

\* the commands git_checkout_version issued in the repository of artifact a
SwitchCmds(a) == { k \in IssuedBy("git_checkout_version") : cmds[k].where = a }
\* the version switcher has been called for artifact a
Processed(a) == \E k \in VersionReads : cmds[k].arg = a

\* C7: git_checkout_version checks a tag out if and only if the pinned version
\* does not end with 'SNAPSHOT', and the ref is then the artifact name, a
\* hyphen and the version; for a version ending with 'SNAPSHOT' it issues no
\* command at all, whatever do_install is, and returns True.
C7_SnapshotSkipsElseChecksOutTag ==
  \A a \in ArtifactSet :
    LET v == pom[a]
        checkouts == SwitchCmds(a) \cap TagCheckouts
    IN  /\ ~Processed(a) => SwitchCmds(a) = {}
        /\ EndsWithSnapshot(v) => SwitchCmds(a) = {}
        /\ (EndsWithSnapshot(v) /\ cmds # <<>> /\ LastCmd.cmd = READ_POM /\ LastCmd.arg = a)
              => switched = True
        /\ (~EndsWithSnapshot(v) /\ Processed(a)) =>
              IF pc = "pull_done" /\ artifact = a THEN checkouts = {}
              ELSE Cardinality(checkouts) = 1
        /\ \A k \in checkouts : cmds[k].arg = a \o <<"-">> \o v

\* with do_install set, a SNAPSHOT artifact was passed over and the tag of an
\* artifact whose entry is absent or in lower case was checked out
C7_Witness ==
  /\ args.do_install
  /\ \E a \in ArtifactSet : EndsWithSnapshot(pom[a]) /\ Processed(a)
  /\ \E k \in TagCheckouts : pom[cmds[k].where] \notin { RELEASE, DEVELOPMENT }

\* C8: when the version switch of the k-th artifact fails, run() returns: the
\* artifacts before it that were switched are still at their pinned tags, no
\* command of the version switcher was issued for the artifacts after it, and
\* neither the install stage nor any `git checkout master` was started.
C8_AbortWithoutRollback ==
  switched = False =>
     /\ pc = "returned"
     /\ \A j \in 1..(i - 1) :
          ~EndsWithSnapshot(pom[ARTIFACTS[j]]) =>
             head[ARTIFACTS[j]] = ARTIFACTS[j] \o <<"-">> \o pom[ARTIFACTS[j]]
     /\ \A j \in (i + 1)..Len(ARTIFACTS) : SwitchCmds(ARTIFACTS[j]) = {}
     /\ StageInstalls = {} /\ IssuedBy("get_branch_name") = {}
     /\ MasterCheckouts = {}

\* the switch fails for an artifact after an earlier one was switched to its tag
C8_Witness ==
  /\ switched = False
  /\ \E j \in 1..(i - 1) : head[ARTIFACTS[j]] # Unknown
  /\ \E j \in (i + 1)..Len(ARTIFACTS) : TRUE

\* the names the destination and its copy sibling are claimed to have
ClaimedTargetName(branch, t) ==
  IF startswith(lower(branch), MASTODON)
  THEN branch \o <<"-">> \o DateStr(t) \o <<"-","a","l","l">>
  ELSE <<"M","a","s","t","o","d","o","n","-">> \o branch \o <<"-">> \o DateStr(t)
         \o <<"-","a","l","l">>
ClaimedCopyName(branch, t) ==
  IF startswith(lower(branch), MASTODON)
  THEN branch \o <<"-">> \o DateStr(t)
  ELSE <<"M","a","s","t","o","d","o","n","-">> \o branch \o <<"-">> \o DateStr(t)

\* C9 (as claimed): in local-directory mode the destination directory is named
\* '<B>-<D>-all' when B starts with 'mastodon' in any case and
\* 'Mastodon-<B>-<D>-all' otherwise, and the copy sibling has that name
\* without its trailing '-all'.
C9_DirectoryNames ==
  /\ StageInstalls # {} /\ ~args.install_to_default =>
        /\ basename(target_dir) = ClaimedTargetName(branch_name, today)
        /\ basename(LastCmd.arg) = ClaimedTargetName(branch_name, today)
  /\ copy_dir # NoText => basename(copy_dir) = ClaimedCopyName(branch_name, today)

Range(seq) == { seq[k] : k \in 1..Len(seq) }

\* C10: install() creates the copy sibling and copies jars only in
\* local-directory mode and only after its install command succeeded; when the
\* command fails, or in default-location mode, nothing is copied and no copy
\* sibling is created; the destination is created, before the install command,
\* only if it did not exist.
C10_CopyOnlyAfterInstall ==
  /\ args.install_to_default =>
        (mkdirs = <<>> /\ copied = {} /\ copy_dir = NoText /\ target_dir = NoText)
  /\ (installed = "failed" \/ (StageInstalls # {} /\ ok = False)) =>
        (copied = {} /\ copy_dir = NoText /\ Range(mkdirs) \subseteq {target_dir})
  /\ (copied # {} \/ copy_dir # NoText) =>
        (~args.install_to_default /\ Cardinality(StageInstalls) = 1 /\ ok = True)
  /\ StageInstalls = {} => Range(mkdirs) \subseteq {target_dir}
  /\ target_dir # NoText =>
        IF env.target_exists THEN target_dir \notin Range(mkdirs)
        ELSE (StageInstalls # {} => mkdirs # <<>> /\ mkdirs[1] = target_dir)
  /\ (copy_dir # NoText /\ env.copy_exists) => copy_dir \notin Range(mkdirs)
  /\ Len(mkdirs) = Cardinality(Range(mkdirs))

\* local-directory mode: the destination was created and the install command failed
C10_Witness ==
  /\ ~args.install_to_default /\ installed = "failed"
  /\ mkdirs = << target_dir >> /\ pc = "install_done"

====
